---- MODULE Spec2Model ----
(***************************************************************************)
(* Bridge API: the engagement score kept by the database triggers, the     *)
(* like / comment handlers that fire them, the trending and explore feed   *)
(* queries, and the owner's update and delete of a post.                   *)
(*                                                                         *)
(* Every db.query of a handler is one autocommit statement of PostgreSQL   *)
(* (READ COMMITTED): the row change, the AFTER ROW trigger it fires and    *)
(* the commit are steps of one transaction; the rows a transaction has     *)
(* written stay invisible to the others until it commits.                  *)
(***************************************************************************)
EXTENDS Integers, Sequences, FiniteSets, TLC

\* ---- bounds of the model
MaxUsers == 2
MaxPosts == 2
MaxHotPosts == 1
MaxComments == 1
MaxReqs == 2
MaxCreated == 2
MaxTime == 8
MaxScore == 1
MaxLimit == 2
MaxOffset == 1
MaxSafeLimit == 1

UserIds == 1..MaxUsers
PostIds == 1..MaxPosts
HotPostIds == 1..MaxHotPosts
CommentIds == 1..MaxComments
Reqs == 1..MaxReqs

\* SQL NULL, as a post id (ids are SERIAL and start at 1)
NULL == 0

VARIABLES
  posts,          \* posts table: id -> row (exists = FALSE: no such row)
  nextPostId,     \* posts_id_seq
  likes,          \* likes table: <<user_id, post_id>> -> number of rows
  comments,       \* comments table: id -> row (exists = FALSE: no such row)
  nextCommentId,  \* comments_id_seq
  now,            \* NOW(), in days
  req,            \* the requests being handled: slot -> handler state
  feed,           \* the answer of the feed query that stands
  explore,        \* the answer of the explore query that stands
  lastLiked,      \* <<user, post>> -> liked of the last ToggleLike answered
  soloUser,       \* post -> the only user who ever interacted with it
  listing,        \* post -> what its owner last did to its visibility
  users,          \* users table: id -> row (exists = FALSE: no such row)
  hits            \* the rate limiter's count of the client's requests

vars == <<posts, nextPostId, likes, comments, nextCommentId, now, req, feed,
          explore, lastLiked, soloUser, listing, users, hits>>

store == <<posts, likes, comments>>

\* ---- text: a string is the sequence of its characters
Chars == {"a", "A", "b", "B", "c", "%", "_"}

\* SQL NULL, as a text value
NullText == <<"NULL">>

\* ---- rows
NoPost == [exists |-> FALSE, user_id |-> NULL, title |-> <<>>,
           description |-> <<>>, plan |-> <<>>, category |-> NullText,
           is_public |-> FALSE,
           created_at |-> 0, updated_at |-> 0, engagement_score |-> 0]

NoComment == [exists |-> FALSE, user_id |-> NULL, post_id |-> NULL]

\* a verification token: the JWT of the payload { purpose, timestamp } signed
\* with the server's secret; the timestamp is Date.now(), a day and the
\* instant within it
NullToken == [day |-> -1, ms |-> 0]

NoUser == [exists |-> FALSE, is_verified |-> FALSE,
           verification_token |-> NullToken]

\* a registered user who has verified the email address
VerifiedUser == [exists |-> TRUE, is_verified |-> TRUE,
                 verification_token |-> NullToken]

IdleReq == [pc |-> "idle", op |-> "none", user |-> NULL, target |-> NULL,
            found |-> FALSE, ins |-> 0, del |-> 0, row_post |-> NULL,
            trig |-> NULL, newScore |-> 0, status |-> 0, cause |-> "none",
            solo |-> FALSE, before |-> FALSE, delta |-> 0, cid |-> NULL,
            wrote |-> FALSE, token |-> NullToken]

\* an optional field of a request: req.query.x, req.body.x
AbsentText == [given |-> FALSE, value |-> <<>>]

Given(v) == [given |-> TRUE, value |-> v]

\* asked: the store returned rows; limit, offset: the values bound to $1, $2
NoFeed == [asked |-> FALSE, status |-> 0, limit |-> 0, offset |-> 0,
           page |-> <<>>]

NoExplore == [asked |-> FALSE, status |-> 0, category |-> AbsentText,
              search |-> AbsentText, limit |-> 0, offset |-> 0,
              text |-> <<>>, params |-> <<>>, page |-> <<>>]

RECURSIVE SumOver(_, _)
SumOver(S, f) ==
  IF S = {} THEN 0
  ELSE LET x == CHOOSE y \in S : TRUE IN f[x] + SumOver(S \ {x}, f)

\* SELECT COUNT(*) FROM likes WHERE post_id = p (committed rows)
LikesCount(p) == SumOver(UserIds, [u \in UserIds |-> likes[<<u, p>>]])

\* SELECT COUNT(*) FROM comments WHERE post_id = p (committed rows)
CommentsCount(p) ==
  Cardinality({c \in CommentIds : comments[c].exists /\ comments[c].post_id = p})

\* ---- the trigger function update_engagement_score()

\* the row variable the function reads: NEW.post_id; NEW is null when the
\* trigger fires for a DELETE (PostgreSQL 11 and later)
TriggerPostId(tg_op, row_post) == IF tg_op = "INSERT" THEN row_post ELSE NULL

\* COUNT(*) likes + COUNT(*) * 2 comments
EngagementScore(nLikes, nComments) == nLikes + nComments * 2

\* ---- what the statements of a transaction see and wait for

InFlight(r) == req[r].pc # "idle"

\* the transaction of r has written rows it has not committed yet
InTxn(r) == req[r].pc \in {"trig", "lock", "commit"}

SameLike(r, r2) ==
  /\ req[r2].op = "like"
  /\ req[r2].user = req[r].user
  /\ req[r2].target = req[r].target

\* rows of likes the statement snapshot of r shows for post p
VisibleLikes(r, p) ==
  LikesCount(p)
  + (IF req[r].op = "like" /\ req[r].row_post = p
     THEN req[r].ins - req[r].del ELSE 0)

\* rows of comments the statement snapshot of r shows for post p
VisibleComments(r, p) ==
  CommentsCount(p)
  + (IF req[r].op \in {"comment", "uncomment"} /\ req[r].row_post = p
     THEN req[r].ins - req[r].del ELSE 0)

\* the row lock on posts row p is held by a transaction that updated it
RowLocked(r, p) ==
  \E r2 \in Reqs \ {r} : req[r2].pc = "commit" /\ req[r2].trig = p

\* ---- ToggleLike: router.post('/:id/like')

\* likes without its UNIQUE constraint
UniqueViolationAlways(u, p) == FALSE

\* UNIQUE(user_id, post_id) on likes
UniqueViolation(u, p) == likes[<<u, p>>] > 0

\* likeCheck.rows.length > 0
LikeCheckFound(u, p) == likes[<<u, p>>] > 0

\* liked: true on both branches
LikedResponseAlways(found) == TRUE

\* liked: false after the DELETE, liked: true after the INSERT
LikedResponse(found) == ~found

\* the rows of the failed statement kept
LikesAfterAbortPartial(r) ==
  IF req[r].op = "like" /\ InTxn(r)
  THEN [likes EXCEPT ![<<req[r].user, req[r].target>>] = @ + req[r].ins - req[r].del]
  ELSE likes

\* a failed statement is rolled back: the rows it wrote are discarded
LikesAfterAbort(r) == likes

\* catch (error): res.status(500); the statement's transaction is rolled back
Abort(r, why) ==
  /\ req' = [req EXCEPT ![r] = [@ EXCEPT !.pc = "respond", !.status = 500,
                                          !.cause = why, !.wrote = InTxn(r),
                                          !.ins = 0, !.del = 0,
                                          !.row_post = NULL, !.trig = NULL,
                                          !.newScore = 0]]
  /\ likes' = LikesAfterAbort(r)
  /\ UNCHANGED <<posts, comments>>

Others(r, u, p) ==
  {r2 \in Reqs \ {r} : InFlight(r2) /\ req[r2].op = "like"
                       /\ req[r2].user = u /\ req[r2].target = p}

StartLike(r, u, p) ==
  /\ req[r].pc = "idle"
  /\ req' = [r2 \in Reqs |->
               IF r2 = r
               THEN [IdleReq EXCEPT !.pc = "check", !.op = "like", !.user = u,
                                    !.target = p,
                                    !.solo = (Others(r, u, p) = {}),
                                    !.before = (likes[<<u, p>>] > 0)]
               ELSE IF r2 \in Others(r, u, p)
               THEN [req[r2] EXCEPT !.solo = FALSE, !.before = FALSE]
               ELSE req[r2]]
  /\ soloUser' = [soloUser EXCEPT ![p] = IF @ \in {NULL, u} THEN u ELSE -1]
  /\ UNCHANGED <<posts, nextPostId, likes, comments, nextCommentId, now,
                 feed, explore, lastLiked, listing, users, hits>>

LikeCheck(r) ==
  /\ req[r].pc = "check" /\ req[r].op = "like"
  /\ req' = [req EXCEPT ![r] = [@ EXCEPT !.pc = "write",
                                          !.found = LikeCheckFound(req[r].user, req[r].target)]]
  /\ UNCHANGED <<posts, nextPostId, likes, comments, nextCommentId, now,
                 feed, explore, lastLiked, soloUser, listing, users, hits>>

\* INSERT INTO likes: waits for a transaction that holds the same key
InsertLike(r) ==
  /\ req[r].pc = "write" /\ req[r].op = "like" /\ ~req[r].found
  /\ ~\E r2 \in Reqs \ {r} : SameLike(r, r2) /\ InTxn(r2)
  /\ IF UniqueViolation(req[r].user, req[r].target) THEN Abort(r, "unique")
     ELSE IF ~posts[req[r].target].exists THEN Abort(r, "fk")
     ELSE /\ req' = [req EXCEPT ![r] = [@ EXCEPT !.pc = "trig", !.ins = 1,
                                                  !.row_post = req[r].target]]
          /\ UNCHANGED store
  /\ UNCHANGED <<nextPostId, nextCommentId, now, feed, explore, lastLiked,
                 soloUser, listing, users, hits>>

\* DELETE FROM likes WHERE user_id AND post_id: every matching row
DeleteLike(r) ==
  /\ req[r].pc = "write" /\ req[r].op = "like" /\ req[r].found
  /\ ~\E r2 \in Reqs \ {r} : SameLike(r, r2) /\ InTxn(r2) /\ req[r2].del > 0
  /\ LET n == likes[<<req[r].user, req[r].target>>] IN
     req' = [req EXCEPT ![r] = IF n = 0 THEN [@ EXCEPT !.pc = "commit"]
                               ELSE [@ EXCEPT !.pc = "trig", !.del = n,
                                              !.row_post = req[r].target]]
  /\ UNCHANGED <<posts, nextPostId, likes, comments, nextCommentId, now,
                 feed, explore, lastLiked, soloUser, listing, users, hits>>

\* ---- CreateComment: router.post('/post/:postId')

\* comment creations that have not drawn their id from comments_id_seq yet
Drawing == {r \in Reqs : req[r].op = "comment" /\ req[r].pc \in {"check", "write"}}

StartComment(r, u, p, valid) ==
  /\ req[r].pc = "idle"
  /\ nextCommentId + Cardinality(Drawing) <= MaxComments
  /\ req' = [req EXCEPT ![r] =
               IF valid
               THEN [IdleReq EXCEPT !.pc = "check", !.op = "comment",
                                    !.user = u, !.target = p]
               ELSE [IdleReq EXCEPT !.pc = "respond", !.op = "comment",
                                    !.user = u, !.target = p, !.status = 400,
                                    !.cause = "validation"]]
  /\ soloUser' = [soloUser EXCEPT ![p] = -1]
  /\ UNCHANGED <<posts, nextPostId, likes, comments, nextCommentId, now,
                 feed, explore, lastLiked, listing, users, hits>>

\* SELECT id FROM posts WHERE id = $1
CommentCheck(r) ==
  /\ req[r].pc = "check" /\ req[r].op = "comment"
  /\ req' = [req EXCEPT ![r] =
               IF posts[req[r].target].exists
               THEN [@ EXCEPT !.pc = "write"]
               ELSE [@ EXCEPT !.pc = "respond", !.status = 404,
                              !.cause = "notfound"]]
  /\ UNCHANGED <<posts, nextPostId, likes, comments, nextCommentId, now,
                 feed, explore, lastLiked, soloUser, listing, users, hits>>

\* INSERT INTO comments (user_id, post_id, content): the id is drawn from the
\* sequence whether or not the statement commits
InsertComment(r) ==
  /\ req[r].pc = "write" /\ req[r].op = "comment"
  /\ nextCommentId' = nextCommentId + 1
  /\ IF ~posts[req[r].target].exists THEN Abort(r, "fk")
     ELSE /\ req' = [req EXCEPT ![r] = [@ EXCEPT !.pc = "trig", !.ins = 1,
                                                  !.row_post = req[r].target,
                                                  !.cid = nextCommentId]]
          /\ UNCHANGED store
  /\ UNCHANGED <<nextPostId, now, feed, explore, lastLiked, soloUser,
                 listing, users, hits>>

\* ---- DeleteComment: router.delete('/:id')

StartUncomment(r, u, c) ==
  /\ req[r].pc = "idle"
  /\ req' = [req EXCEPT ![r] = [IdleReq EXCEPT !.pc = "check",
                                               !.op = "uncomment",
                                               !.user = u, !.target = c]]
  /\ UNCHANGED <<posts, nextPostId, likes, comments, nextCommentId, now,
                 feed, explore, lastLiked, soloUser, listing, users, hits>>

\* the check without the comparison of the author
UncommentCheckAnyUser(r) ==
  /\ req[r].pc = "check" /\ req[r].op = "uncomment"
  /\ req' = [req EXCEPT ![r] =
               IF ~comments[req[r].target].exists
               THEN [@ EXCEPT !.pc = "respond", !.status = 404,
                              !.cause = "notfound"]
               ELSE [@ EXCEPT !.pc = "write"]]
  /\ UNCHANGED <<posts, nextPostId, likes, comments, nextCommentId, now,
                 feed, explore, lastLiked, soloUser, listing, users, hits>>

\* SELECT user_id FROM comments WHERE id = $1
UncommentCheck(r) ==
  /\ req[r].pc = "check" /\ req[r].op = "uncomment"
  /\ req' = [req EXCEPT ![r] =
               IF ~comments[req[r].target].exists
               THEN [@ EXCEPT !.pc = "respond", !.status = 404,
                              !.cause = "notfound"]
               ELSE IF comments[req[r].target].user_id # req[r].user
               THEN [@ EXCEPT !.pc = "respond", !.status = 403,
                              !.cause = "forbidden"]
               ELSE [@ EXCEPT !.pc = "write"]]
  /\ UNCHANGED <<posts, nextPostId, likes, comments, nextCommentId, now,
                 feed, explore, lastLiked, soloUser, listing, users, hits>>

\* DELETE FROM comments WHERE id = $1: waits for a transaction deleting the row
DeleteCommentRow(r) ==
  /\ req[r].pc = "write" /\ req[r].op = "uncomment"
  /\ ~\E r2 \in Reqs \ {r} : /\ req[r2].op = "uncomment" /\ InTxn(r2)
                             /\ req[r2].target = req[r].target /\ req[r2].del > 0
  /\ req' = [req EXCEPT ![r] =
               IF comments[req[r].target].exists
               THEN [@ EXCEPT !.pc = "trig", !.del = 1,
                              !.row_post = comments[req[r].target].post_id]
               ELSE [@ EXCEPT !.pc = "commit"]]
  /\ UNCHANGED <<posts, nextPostId, likes, comments, nextCommentId, now,
                 feed, explore, lastLiked, soloUser, listing, users, hits>>

\* ---- the statement's AFTER ROW trigger, its commit and the response

\* update_engagement_score(): the UPDATE's snapshot is taken and its SET
\* expression is computed from the rows the snapshot shows
TriggerSnapshot(r) ==
  /\ req[r].pc = "trig"
  /\ LET t == TriggerPostId(IF req[r].ins > 0 THEN "INSERT" ELSE "DELETE",
                            req[r].row_post) IN
     req' = [req EXCEPT ![r] =
               IF t = NULL \/ ~posts[t].exists
               THEN [@ EXCEPT !.pc = "commit"]
               ELSE [@ EXCEPT !.pc = "lock", !.trig = t,
                              !.newScore = EngagementScore(VisibleLikes(r, t),
                                                           VisibleComments(r, t))]]
  /\ UNCHANGED <<posts, nextPostId, likes, comments, nextCommentId, now,
                 feed, explore, lastLiked, soloUser, listing, users, hits>>

\* UPDATE posts ... WHERE id = NEW.post_id: the row is locked and written once
\* no other transaction holds it; the SET value is the one computed above
TriggerUpdate(r) ==
  /\ req[r].pc = "lock"
  /\ ~RowLocked(r, req[r].trig)
  /\ req' = [req EXCEPT ![r] = [@ EXCEPT !.pc = "commit"]]
  /\ UNCHANGED <<posts, nextPostId, likes, comments, nextCommentId, now,
                 feed, explore, lastLiked, soloUser, listing, users, hits>>

\* update_posts_updated_at, BEFORE UPDATE ON posts FOR EACH ROW:
\* NEW.updated_at = CURRENT_TIMESTAMP
UpdatedAt(row) == [row EXCEPT !.updated_at = now]

\* the status of the response that follows the statement
SuccessStatus(op) == IF op = "comment" THEN 201 ELSE 200

\* the statement commits: its rows and the score it wrote become visible
Commit(r) ==
  /\ req[r].pc = "commit"
  /\ likes' = IF req[r].op = "like"
              THEN [likes EXCEPT ![<<req[r].user, req[r].target>>] =
                                    @ + req[r].ins - req[r].del]
              ELSE likes
  /\ comments' = IF req[r].op = "comment" /\ req[r].ins > 0
                 THEN [comments EXCEPT ![req[r].cid] =
                         [exists |-> TRUE, user_id |-> req[r].user,
                          post_id |-> req[r].target]]
                 ELSE IF req[r].op = "uncomment" /\ req[r].del > 0
                 THEN [comments EXCEPT ![req[r].target] = NoComment]
                 ELSE comments
  /\ posts' = IF req[r].trig # NULL
              THEN [posts EXCEPT ![req[r].trig] =
                      UpdatedAt([@ EXCEPT !.engagement_score = req[r].newScore])]
              ELSE posts
  /\ req' = [req EXCEPT ![r] =
               [@ EXCEPT !.pc = "respond", !.status = SuccessStatus(req[r].op),
                         !.row_post = NULL, !.trig = NULL, !.newScore = 0,
                         !.cid = NULL,
                         !.delta = IF req[r].row_post = NULL THEN 0
                                   ELSE posts'[req[r].row_post].engagement_score
                                        - posts[req[r].row_post].engagement_score]]
  /\ UNCHANGED <<nextPostId, nextCommentId, now, feed, explore, lastLiked,
                 soloUser, listing, users, hits>>

\* a db.query rejects (connection lost, statement timeout): catch (error)
StoreFail(r) ==
  /\ req[r].pc \in {"check", "write", "trig", "lock", "commit"}
  /\ Abort(r, "store")
  /\ UNCHANGED <<nextPostId, nextCommentId, now, feed, explore, lastLiked,
                 soloUser, listing, users, hits>>

LikedText(b) == IF b THEN "true" ELSE "false"

\* the liked field of the response r is about to send
Liked(r) == req[r].op = "like" /\ req[r].status = 200 /\ LikedResponse(req[r].found)

\* error.message of what the failed db.query threw: the store's own text
StoreErrorMessage(cause) ==
  IF cause = "unique"
  THEN "duplicate key value violates unique constraint likes_user_id_post_id_key"
  ELSE IF cause = "fk"
  THEN "insert or update on table violates foreign key constraint"
  ELSE "connection terminated unexpectedly"

\* the error text of the handler's catch
FailureText(op) ==
  IF op = "like" THEN "Failed to like/unlike post"
  ELSE IF op = "comment" THEN "Failed to create comment"
  ELSE IF op = "editcomment" THEN "Failed to update comment"
  ELSE "Failed to delete comment"

\* res.status(500).json({ error: '...', message: error.message })
FailureBody(r) ==
  [error |-> FailureText(req[r].op),
   message |-> StoreErrorMessage(req[r].cause)]

\* res.json / res.status(..).json
Respond(r) ==
  /\ req[r].pc = "respond"
  /\ lastLiked' = IF req[r].op = "like" /\ req[r].status = 200
                  THEN [lastLiked EXCEPT ![<<req[r].user, req[r].target>>] =
                          IF req[r].solo THEN LikedText(Liked(r)) ELSE "none"]
                  ELSE lastLiked
  /\ req' = [req EXCEPT ![r] = IdleReq]
  /\ UNCHANGED <<posts, nextPostId, likes, comments, nextCommentId, now,
                 feed, explore, soloUser, listing, users, hits>>

\* ---- CreatePost: router.post('/')

\* the row of INSERT INTO posts (...): category || null, engagement_score
\* DEFAULT 0, created_at and updated_at DEFAULT CURRENT_TIMESTAMP
InsertedPost(u, title, description, plan, category, isPublic) ==
  [exists |-> TRUE, user_id |-> u, title |-> title,
   description |-> description, plan |-> plan,
   category |-> IF category = <<>> THEN NullText ELSE category,
   is_public |-> isPublic, created_at |-> now, updated_at |-> now,
   engagement_score |-> 0]

\* a post written with a valid body
CreatePost(u, title, description, plan, category, isPublic) ==
  /\ posts' = [posts EXCEPT ![nextPostId] =
                 InsertedPost(u, title, description, plan, category, isPublic)]
  /\ nextPostId' = nextPostId + 1
  /\ UNCHANGED <<likes, comments, nextCommentId, now, req, feed, explore,
                 lastLiked, soloUser, listing, users, hits>>

\* ---- the service with its clients: posts are written, liked and commented

Init ==
  /\ posts = [p \in PostIds |-> NoPost]
  /\ nextPostId = 1
  /\ likes = [k \in UserIds \X PostIds |-> 0]
  /\ comments = [c \in CommentIds |-> NoComment]
  /\ nextCommentId = 1
  /\ now = 0
  /\ req = [r \in Reqs |-> IdleReq]
  /\ feed = NoFeed
  /\ explore = NoExplore
  /\ lastLiked = [k \in UserIds \X PostIds |-> "none"]
  /\ soloUser = [p \in PostIds |-> NULL]
  /\ listing = [p \in PostIds |-> "none"]
  /\ users = [u \in UserIds |-> VerifiedUser]
  /\ hits = 0

Next ==
  \/ \E u \in UserIds :
       nextPostId <= MaxHotPosts
       /\ CreatePost(u, <<"a">>, <<"b">>, <<"c">>, <<>>, TRUE)
  \/ \E r \in Reqs, u \in UserIds, p \in HotPostIds : StartLike(r, u, p)
  \/ \E r \in Reqs : LikeCheck(r)
  \/ \E r \in Reqs : InsertLike(r)
  \/ \E r \in Reqs : DeleteLike(r)
  \/ \E r \in Reqs, u \in UserIds, p \in HotPostIds, valid \in BOOLEAN :
       StartComment(r, u, p, valid)
  \/ \E r \in Reqs : CommentCheck(r)
  \/ \E r \in Reqs : InsertComment(r)
  \/ \E r \in Reqs, u \in UserIds, c \in CommentIds : StartUncomment(r, u, c)
  \/ \E r \in Reqs : UncommentCheck(r)
  \/ \E r \in Reqs : DeleteCommentRow(r)
  \/ \E r \in Reqs : TriggerSnapshot(r)
  \/ \E r \in Reqs : TriggerUpdate(r)
  \/ \E r \in Reqs : Commit(r)
  \/ \E r \in Reqs : StoreFail(r)
  \/ \E r \in Reqs : Respond(r)

Spec == Init /\ [][Next]_vars

\* ---- the properties

AtRest == \A r \in Reqs : req[r].pc = "idle"

Counted(p) == LikesCount(p) + 2 * CommentsCount(p)

Answering(r) == req[r].pc = "respond"

Succeeded(r) == Answering(r) /\ req[r].status \in {200, 201}

LikeKey(r) == <<req[r].user, req[r].target>>

\* C1: whenever no like or comment request is in flight, every post's stored
\* engagement score equals its number of likes rows plus twice its number of
\* comments rows.
C1_ScoreInvariant ==
  AtRest => \A p \in PostIds :
              posts[p].exists => posts[p].engagement_score = Counted(p)

\* the score delta that belongs to one row of the operation
Weight(op) == IF op = "like" THEN 1 ELSE 2

\* C2: a request that committed an interaction changed the post's score, in the
\* same commit, by +1 per like row inserted, -1 per like row deleted, +2 per
\* comment created and -2 per comment deleted, and by nothing when it changed
\* no row.
C2_PairedDelta ==
  \A r \in Reqs :
    Succeeded(r) => req[r].delta = Weight(req[r].op) * (req[r].ins - req[r].del)

\* C3: when a like by one user and a like or a comment creation by another
\* user on the same post were in flight together and both have committed, the
\* stored score counts both rows, whichever committed first.
C3_NoLostUpdate ==
  \A r1, r2 \in Reqs :
    ( /\ r1 # r2
      /\ Succeeded(r1) /\ Succeeded(r2)
      /\ req[r1].op = "like" /\ req[r1].ins = 1
      /\ req[r2].op \in {"like", "comment"} /\ req[r2].ins = 1
      /\ req[r1].user # req[r2].user
      /\ req[r1].target = req[r2].target )
    => posts[req[r1].target].engagement_score = Counted(req[r1].target)

\* C4: a ToggleLike call that overlapped no other call of the same user on the
\* same post answers liked = TRUE exactly when the user had no like row at its
\* start, leaves a like row exactly when it answers liked = TRUE, and answers
\* the opposite of the preceding such call.
C4_SequentialToggle ==
  \A r \in Reqs :
    (Answering(r) /\ req[r].op = "like" /\ req[r].status = 200 /\ req[r].solo)
    => /\ Liked(r) = ~req[r].before
       /\ Liked(r) = (likes[LikeKey(r)] > 0)
       /\ lastLiked[LikeKey(r)] # "none"
            => lastLiked[LikeKey(r)] # LikedText(Liked(r))

\* a third call in a row answers liked = TRUE after liked = FALSE
C4_Witness ==
  \E r \in Reqs :
    /\ Answering(r) /\ req[r].op = "like" /\ req[r].status = 200 /\ req[r].solo
    /\ Liked(r) /\ lastLiked[LikeKey(r)] = "false"

\* C5: the ToggleLike call whose INSERT hits the uniqueness constraint answers
\* 200 with liked = TRUE, not an error.
C5_DuplicateLikeIdempotent ==
  \A r \in Reqs :
    (Answering(r) /\ req[r].op = "like" /\ req[r].cause = "unique")
    => req[r].status = 200 /\ Liked(r)

\* like rows of key k written by transactions that have not committed yet
PendingLikes(k) ==
  Cardinality({r \in Reqs : /\ req[r].op = "like" /\ InTxn(r)
                            /\ LikeKey(r) = k /\ req[r].ins > 0})

\* C6: there is never more than one likes row per (user, post), counting the
\* rows of transactions still in progress.
C6_LikeUnique ==
  \A k \in UserIds \X PostIds : likes[k] + PendingLikes(k) <= 1

\* two overlapping calls of one user passed the check; one row is stored
C6_Witness ==
  \E r \in Reqs :
    /\ Answering(r) /\ req[r].op = "like" /\ req[r].cause = "unique"
    /\ likes[LikeKey(r)] = 1

\* C7: ToggleLike on a post id that has no posts row answers 404.
C7_LikeMissingPostNotFound ==
  \A r \in Reqs :
    (Answering(r) /\ req[r].op = "like" /\ req[r].cause = "fk")
    => req[r].status = 404

\* C8: a post that a single user alone has toggled likes on, and nobody else
\* has liked or commented, never has a score above 1, its score at creation
\* (0) plus 1.
C8_SingleUserBound ==
  \A p \in PostIds : soloUser[p] \in UserIds => posts[p].engagement_score <= 1

\* the single user raced with themselves and the score stands at 1
C8_Witness ==
  \E r \in Reqs :
    /\ Answering(r) /\ req[r].op = "like" /\ req[r].cause = "unique"
    /\ soloUser[req[r].target] = req[r].user
    /\ posts[req[r].target].engagement_score = 1

\* C9: a step in which a statement of ToggleLike, CreateComment or
\* DeleteComment fails leaves the likes rows, the comments rows and every
\* post's score as they were: nothing the failed statement wrote is kept.
C9_AllOrNothing ==
  [][ \A r \in Reqs :
        (~Answering(r) /\ req'[r].pc = "respond"
         /\ req'[r].status \notin {200, 201})
        => store' = store ]_vars

\* a like INSERT failed after its row was written
C9_Witness ==
  \E r \in Reqs :
    /\ Answering(r) /\ req[r].op = "like" /\ req[r].cause = "store"
    /\ req[r].wrote /\ ~req[r].found
    /\ likes[LikeKey(r)] = 0

\* ---- GetTrending: router.get('/trending')

\* INTERVAL '7 days'
TrendingWindowDays == 7

\* the query without its time window
InTrendingWindowAlways(created_at, at) == TRUE

\* p.created_at > NOW() - INTERVAL '7 days'
InTrendingWindow(created_at, at) == created_at > at - TrendingWindowDays

\* the query without p.is_public = TRUE
TrendingCandidatesAnyVisibility ==
  {p \in PostIds : /\ posts[p].exists
                   /\ posts[p].user_id \in UserIds
                   /\ InTrendingWindow(posts[p].created_at, now)}

\* FROM posts p JOIN users u ON p.user_id = u.id WHERE p.is_public = TRUE AND ...
TrendingCandidates ==
  {p \in PostIds : /\ posts[p].exists
                   /\ posts[p].user_id \in UserIds
                   /\ posts[p].is_public = TRUE
                   /\ InTrendingWindow(posts[p].created_at, now)}

\* ORDER BY p.engagement_score DESC, p.created_at ASC
TrendingBeforeOldest(p, q) ==
  \/ posts[p].engagement_score > posts[q].engagement_score
  \/ /\ posts[p].engagement_score = posts[q].engagement_score
     /\ posts[p].created_at < posts[q].created_at

\* ORDER BY p.engagement_score DESC, p.created_at DESC: p sorts before q
TrendingBefore(p, q) ==
  \/ posts[p].engagement_score > posts[q].engagement_score
  \/ /\ posts[p].engagement_score = posts[q].engagement_score
     /\ posts[p].created_at > posts[q].created_at

\* the orders in which the store may return the candidates under ORDER BY:
\* rows the sort keys do not tell apart come in any order
TrendingOrders ==
  {s \in [1..Cardinality(TrendingCandidates) -> TrendingCandidates] :
     /\ \A i, j \in DOMAIN s : i # j => s[i] # s[j]
     /\ \A i, j \in DOMAIN s : i < j => ~TrendingBefore(s[j], s[i])}

Min(a, b) == IF a < b THEN a ELSE b

\* LIMIT $1 OFFSET $2
Page(s, limit, offset) == SubSeq(s, offset + 1, Min(offset + limit, Len(s)))

\* the store rejects a negative LIMIT or OFFSET: the query throws
PageRejected(limit, offset) == limit < 0 \/ offset < 0

\* one query is answered at a time; its answer stands until the store or the
\* clock moves on. catch (error): res.status(500)
GetTrending(limit, offset) ==
  /\ feed = NoFeed /\ explore = NoExplore
  /\ IF PageRejected(limit, offset)
     THEN feed' = [NoFeed EXCEPT !.status = 500, !.limit = limit,
                                 !.offset = offset]
     ELSE \E s \in TrendingOrders :
            feed' = [asked |-> TRUE, status |-> 200, limit |-> limit,
                     offset |-> offset, page |-> Page(s, limit, offset)]
  /\ UNCHANGED <<posts, nextPostId, likes, comments, nextCommentId, now, req,
                 explore, lastLiked, soloUser, listing, users, hits>>

\* ---- GetExplore: router.get('/explore')

\* if (category), if (search): undefined and '' are falsy
Truthy(x) == x.given /\ x.value # <<>>

\* `%${search}%`
SearchPattern(search) == <<"%">> \o search \o <<"%">>

\* a value of the params array, with the type the store reads it as
TextParam(v) == [type |-> "text", value |-> v]

IntParam(n) == [type |-> "int", value |-> n]

\* paramCount left as it was
NextParamStuck(paramCount) == paramCount

\* paramCount++
NextParam(paramCount) == paramCount + 1

\* the query text after WHERE p.is_public = TRUE, one entry per fragment
\* appended: the predicate and the n of its $n; and the params array
ExploreQuery(category, search, limit, offset) ==
  LET q0 == [text |-> <<>>, params |-> <<>>, paramCount |-> 1]
      q1 == IF Truthy(category)
            THEN [text |-> Append(q0.text, [pred |-> "category",
                                            ph |-> q0.paramCount]),
                  params |-> Append(q0.params, TextParam(category.value)),
                  paramCount |-> NextParam(q0.paramCount)]
            ELSE q0
      q2 == IF Truthy(search)
            THEN [text |-> Append(q1.text, [pred |-> "search",
                                            ph |-> q1.paramCount]),
                  params |-> Append(q1.params,
                                    TextParam(SearchPattern(search.value))),
                  paramCount |-> NextParam(q1.paramCount)]
            ELSE q1
  IN [text |-> q2.text \o <<[pred |-> "limit", ph |-> q2.paramCount],
                            [pred |-> "offset", ph |-> q2.paramCount + 1]>>,
      params |-> q2.params \o <<IntParam(limit), IntParam(offset)>>]

\* lower(c): the case folding of ILIKE
Lower(c) == IF c = "A" THEN "a" ELSE IF c = "B" THEN "b" ELSE c

\* s LIKE pat, case folded: % matches any run of characters, _ any one
RECURSIVE ILike(_, _)
ILike(s, pat) ==
  IF pat = <<>> THEN s = <<>>
  ELSE IF Head(pat) = "%"
  THEN ILike(s, Tail(pat)) \/ (s # <<>> /\ ILike(Tail(s), pat))
  ELSE /\ s # <<>>
       /\ Head(pat) = "_" \/ Lower(Head(pat)) = Lower(Head(s))
       /\ ILike(Tail(s), Tail(pat))

\* the entry of the text for predicate pred, if any
Fragments(q, pred) == {i \in DOMAIN q.text : q.text[i].pred = pred}

\* the value the store reads for the $n of entry i
Bound(q, i) == q.params[q.text[i].ph]

\* the store rejects the statement: the params array is not as long as the
\* highest $n, a LIMIT or OFFSET value is not a number or is negative
ExploreRejected(q) ==
  \/ \E i \in DOMAIN q.text : q.text[i].ph \notin DOMAIN q.params
  \/ \E n \in DOMAIN q.params : \A i \in DOMAIN q.text : q.text[i].ph # n
  \/ \E i \in Fragments(q, "limit") \cup Fragments(q, "offset") :
       Bound(q, i).type # "int" \/ Bound(q, i).value < 0

\* p.title ILIKE $n AND p.description ILIKE $n
SearchMatchesBoth(p, pat) ==
  ILike(posts[p].title, pat) /\ ILike(posts[p].description, pat)

\* p.title ILIKE $n OR p.description ILIKE $n
SearchMatches(p, pat) ==
  ILike(posts[p].title, pat) \/ ILike(posts[p].description, pat)

\* FROM posts p JOIN users u ON p.user_id = u.id WHERE p.is_public = TRUE
\* AND p.category = $n AND (p.title ILIKE $n OR p.description ILIKE $n)
ExploreCandidates(q) ==
  {p \in PostIds :
     /\ posts[p].exists
     /\ posts[p].user_id \in UserIds
     /\ posts[p].is_public = TRUE
     /\ \A i \in Fragments(q, "category") :
          /\ posts[p].category # NullText
          /\ posts[p].category = Bound(q, i).value
     /\ \A i \in Fragments(q, "search") : SearchMatches(p, Bound(q, i).value)}

\* ORDER BY p.engagement_score DESC, p.created_at DESC
ExploreBeforeByScore(p, q) == TrendingBefore(p, q)

\* ORDER BY p.created_at DESC: p sorts before q
ExploreBefore(p, q) == posts[p].created_at > posts[q].created_at

\* the orders in which the store may return the candidates under ORDER BY
ExploreOrders(q) ==
  {s \in [1..Cardinality(ExploreCandidates(q)) -> ExploreCandidates(q)] :
     /\ \A i, j \in DOMAIN s : i # j => s[i] # s[j]
     /\ \A i, j \in DOMAIN s : i < j => ~ExploreBefore(s[j], s[i])}

\* catch (error): res.status(500)
GetExplore(category, search, limit, offset) ==
  /\ feed = NoFeed /\ explore = NoExplore
  /\ LET q == ExploreQuery(category, search, limit, offset)
         answer == [NoExplore EXCEPT !.category = category, !.search = search,
                                     !.limit = limit, !.offset = offset,
                                     !.text = q.text, !.params = q.params]
     IN IF ExploreRejected(q)
        THEN explore' = [answer EXCEPT !.status = 500]
        ELSE \E s \in ExploreOrders(q) :
               \E i \in Fragments(q, "limit"), j \in Fragments(q, "offset") :
                 explore' = [answer EXCEPT
                               !.asked = TRUE, !.status = 200,
                               !.page = Page(s, Bound(q, i).value,
                                             Bound(q, j).value)]
  /\ UNCHANGED <<posts, nextPostId, likes, comments, nextCommentId, now, req,
                 feed, lastLiked, soloUser, listing, users, hits>>

\* a day passes; the answer of the last query has been delivered
Tick ==
  /\ now < MaxTime
  /\ now' = now + 1
  /\ feed' = NoFeed
  /\ explore' = NoExplore
  /\ UNCHANGED <<posts, nextPostId, likes, comments, nextCommentId, req,
                 lastLiked, soloUser, listing, users, hits>>

\* ---- UpdatePost: router.put('/:id'), with isPublic in the body

\* what the owner last did to the visibility of a post: hidden it when it was
\* public, or shown it again after that
ListingAfter(was, wasPublic, isPublic) ==
  IF wasPublic /\ ~isPublic THEN "hidden"
  ELSE IF was = "hidden" /\ isPublic THEN "shown"
  ELSE was

\* 404 when the post is not found, 403 when it is not the caller's;
\* UPDATE posts SET is_public = $1 WHERE id = $2
UpdatePost(u, p, isPublic) ==
  /\ posts[p].exists
  /\ posts[p].user_id = u
  /\ ~\E r \in Reqs : req[r].pc = "commit" /\ req[r].trig = p
  /\ posts' = [posts EXCEPT ![p] = UpdatedAt([@ EXCEPT !.is_public = isPublic])]
  /\ listing' = [listing EXCEPT
                   ![p] = ListingAfter(@, posts[p].is_public, isPublic)]
  /\ feed' = NoFeed
  /\ explore' = NoExplore
  /\ UNCHANGED <<nextPostId, likes, comments, nextCommentId, now, req,
                 lastLiked, soloUser, users, hits>>

\* ---- the feed queries over a posts table the service has built up: posts of
\* any visibility, age and score (a score stands for the likes and comments
\* counted into it; the feed reads the stored number)

FeedRows ==
  {NoPost} \cup [exists : {TRUE}, user_id : {1}, title : {<<"a">>},
                 description : {<<"b">>}, plan : {<<"c">>},
                 category : {NullText},
                 is_public : BOOLEAN, created_at : 0..MaxCreated,
                 updated_at : {MaxCreated}, engagement_score : 0..MaxScore]

InitFeed ==
  /\ posts \in [PostIds -> FeedRows]
  /\ nextPostId = MaxPosts + 1
  /\ likes = [k \in UserIds \X PostIds |-> 0]
  /\ comments = [c \in CommentIds |-> NoComment]
  /\ nextCommentId = 1
  /\ now = MaxCreated
  /\ req = [r \in Reqs |-> IdleReq]
  /\ feed = NoFeed
  /\ explore = NoExplore
  /\ lastLiked = [k \in UserIds \X PostIds |-> "none"]
  /\ soloUser = [p \in PostIds |-> NULL]
  /\ listing = [p \in PostIds |-> "none"]
  /\ users = [u \in UserIds |-> VerifiedUser]
  /\ hits = 0

NextFeed ==
  \/ \E limit \in 0..MaxLimit, offset \in -1..MaxOffset :
       GetTrending(limit, offset)
  \/ Tick

SpecFeed == InitFeed /\ [][NextFeed]_vars

\* ---- both feed queries, with the owners changing the visibility of their
\* posts between them

NextOwner ==
  \/ \E limit \in 1..MaxLimit, offset \in -1..0 : GetTrending(limit, offset)
  \/ \E limit \in 1..MaxLimit, offset \in -1..0 :
       GetExplore(AbsentText, AbsentText, limit, offset)
  \/ \E u \in UserIds, p \in PostIds, isPublic \in BOOLEAN :
       UpdatePost(u, p, isPublic)

SpecOwner == InitFeed /\ [][NextOwner]_vars

\* ---- the explore query over posts of any text, category, age and score

Texts ==
  { [title |-> <<"A", "b">>, description |-> <<"c">>],
    [title |-> <<"c">>, description |-> <<"_", "a">>] }

Categories == {<<"x">>, <<"y">>}

ExploreRows ==
  {NoPost} \cup
  { [exists |-> TRUE, user_id |-> 1, title |-> t.title,
     description |-> t.description, plan |-> <<"c">>, category |-> c,
     is_public |-> pub,
     created_at |-> at, updated_at |-> MaxCreated,
     engagement_score |-> score] :
    t \in Texts, c \in {NullText} \cup Categories, pub \in BOOLEAN,
    at \in (MaxCreated - 1)..MaxCreated, score \in 0..MaxScore }

CategoryInputs == {AbsentText, Given(<<>>), Given(<<"x">>)}

SearchInputs == {AbsentText, Given(<<>>), Given(<<"a", "B">>), Given(<<"_">>)}

InitExplore ==
  /\ posts \in [PostIds -> ExploreRows]
  /\ nextPostId = MaxPosts + 1
  /\ likes = [k \in UserIds \X PostIds |-> 0]
  /\ comments = [c \in CommentIds |-> NoComment]
  /\ nextCommentId = 1
  /\ now = MaxCreated
  /\ req = [r \in Reqs |-> IdleReq]
  /\ feed = NoFeed
  /\ explore = NoExplore
  /\ lastLiked = [k \in UserIds \X PostIds |-> "none"]
  /\ soloUser = [p \in PostIds |-> NULL]
  /\ listing = [p \in PostIds |-> "none"]
  /\ users = [u \in UserIds |-> VerifiedUser]
  /\ hits = 0

NextExplore ==
  \E category \in CategoryInputs, search \in SearchInputs,
     limit \in 1..MaxLimit, offset \in 0..MaxOffset :
    GetExplore(category, search, limit, offset)

SpecExplore == InitExplore /\ [][NextExplore]_vars

\* ---- DeletePost: router.delete('/:id')

\* the likes rows of the post kept
LikesAfterDeleteKept(p) == likes

\* likes.post_id REFERENCES posts(id) ON DELETE CASCADE
LikesAfterDelete(p) ==
  [k \in UserIds \X PostIds |-> IF k[2] = p THEN 0 ELSE likes[k]]

\* comments.post_id REFERENCES posts(id) ON DELETE CASCADE
CommentsAfterDelete(p) ==
  [c \in CommentIds |->
     IF comments[c].exists /\ comments[c].post_id = p THEN NoComment
     ELSE comments[c]]

\* a transaction in progress holds a lock the DELETE must wait for: on the
\* posts row (a row it inserted references it) or on a row of the cascade
HeldByWriter(p) == \E r \in Reqs : InTxn(r) /\ req[r].row_post = p

\* 404 when the post is not found, 403 when it is not the caller's;
\* DELETE FROM posts WHERE id = $1: one statement with its cascade (the
\* AFTER DELETE triggers of the cascaded rows update no post: NEW is null)
DeletePost(u, p) ==
  /\ posts[p].exists
  /\ posts[p].user_id = u
  /\ ~HeldByWriter(p)
  /\ posts' = [posts EXCEPT ![p] = NoPost]
  /\ likes' = LikesAfterDelete(p)
  /\ comments' = CommentsAfterDelete(p)
  /\ listing' = [listing EXCEPT ![p] = "none"]
  /\ feed' = NoFeed
  /\ explore' = NoExplore
  /\ UNCHANGED <<nextPostId, nextCommentId, now, req, lastLiked, soloUser,
                 users, hits>>

\* ---- the service with its clients and the owners deleting their posts

NextCascade ==
  \/ Next
  \/ \E u \in UserIds, p \in HotPostIds : DeletePost(u, p)

SpecCascade == Init /\ [][NextCascade]_vars

Range(s) == {s[i] : i \in DOMAIN s}

Age(p) == now - posts[p].created_at

\* public posts created less than 7 days ago
Fresh == {p \in PostIds : posts[p].exists /\ posts[p].is_public
                          /\ Age(p) < TrendingWindowDays}

\* fresh posts that rank strictly before p
Ahead(p) ==
  {q \in Fresh \ {p} :
     \/ posts[q].engagement_score > posts[p].engagement_score
     \/ /\ posts[q].engagement_score = posts[p].engagement_score
        /\ posts[q].created_at > posts[p].created_at}

\* fresh posts that tie with p on score and created_at
Tied(p) ==
  {q \in Fresh \ {p} :
     /\ posts[q].engagement_score = posts[p].engagement_score
     /\ posts[q].created_at = posts[p].created_at}

\* C10: GetTrending returns only public posts created less than 7 days before
\* the query, whatever their score, and returns every such post whose rank
\* among them lies in [offset, offset + limit).
C10_TrendingCandidateSet ==
  feed.asked =>
    /\ Range(feed.page) \subseteq Fresh
    /\ \A p \in Fresh :
         ( /\ Cardinality(Ahead(p)) >= feed.offset
           /\ Cardinality(Ahead(p)) + Cardinality(Tied(p))
                < feed.offset + feed.limit )
         => p \in Range(feed.page)

\* a public post 8 days old with the higher score is left out and a public
\* post 6 days old with the lower score is returned
C10_Witness ==
  /\ feed.asked
  /\ \E p, q \in PostIds :
       /\ posts[p].exists /\ posts[p].is_public /\ Age(p) = 8
       /\ posts[q].exists /\ posts[q].is_public /\ Age(q) = 6
       /\ posts[p].engagement_score > posts[q].engagement_score
       /\ p \notin Range(feed.page) /\ q \in Range(feed.page)

\* C11: GetTrending returns its posts by stored score descending and, among
\* posts of equal score, by created_at descending: a post never comes after
\* one of lower score, nor after an equal-score post that was created earlier.
C11_TrendingRanking ==
  feed.asked =>
    \A i, j \in DOMAIN feed.page :
      i < j =>
        /\ posts[feed.page[i]].engagement_score
             >= posts[feed.page[j]].engagement_score
        /\ posts[feed.page[i]].engagement_score
             = posts[feed.page[j]].engagement_score
           => posts[feed.page[i]].created_at >= posts[feed.page[j]].created_at

\* two public posts of equal score, the later-created one first
C11_Witness ==
  /\ feed.asked
  /\ Len(feed.page) = 2
  /\ posts[feed.page[1]].engagement_score = posts[feed.page[2]].engagement_score
  /\ posts[feed.page[1]].created_at > posts[feed.page[2]].created_at

\* no sort key of GetTrending tells p and q apart
TrendingTied(p, q) ==
  /\ posts[p].engagement_score = posts[q].engagement_score
  /\ posts[p].created_at = posts[q].created_at

\* no sort key of GetExplore tells p and q apart
ExploreTied(p, q) == posts[p].created_at = posts[q].created_at

\* C12: posts that tie on score and created_at in a GetTrending result, or on
\* created_at in a GetExplore result, are returned in the order of their ids.
C12_TotalOrder ==
  /\ feed.asked =>
       \A i, j \in DOMAIN feed.page :
         (i < j /\ TrendingTied(feed.page[i], feed.page[j]))
         => feed.page[i] < feed.page[j]
  /\ explore.asked =>
       \A i, j \in DOMAIN explore.page :
         (i < j /\ ExploreTied(explore.page[i], explore.page[j]))
         => explore.page[i] < explore.page[j]

\* the filter is provided: the parameter is in the query string with a value
Provided(x) == x.given /\ x.value # <<>>

\* the public posts that satisfy every provided filter of the explore query
\* answered
Expected ==
  {p \in PostIds :
     /\ posts[p].exists /\ posts[p].is_public
     /\ Provided(explore.category) => posts[p].category = explore.category.value
     /\ Provided(explore.search) =>
          \/ ILike(posts[p].title, <<"%">> \o explore.search.value \o <<"%">>)
          \/ ILike(posts[p].description,
                   <<"%">> \o explore.search.value \o <<"%">>)}

\* C13: GetExplore returns only public posts that satisfy every provided filter
\* (category equal, search matched in title or description), and all of them
\* when the page has room for all; a filter not provided constrains nothing.
C13_ExploreFilterConjunction ==
  explore.asked =>
    /\ Range(explore.page) \subseteq Expected
    /\ (explore.offset = 0 /\ explore.limit >= Cardinality(Expected))
       => Range(explore.page) = Expected

\* both filters provided: a post matching both is returned, and a public post
\* that matches the search in its title alone, of another category, is not
C13_Witness ==
  /\ explore.asked
  /\ Provided(explore.category) /\ Provided(explore.search)
  /\ \E p, q \in PostIds :
       /\ p \in Range(explore.page) /\ q \notin Range(explore.page)
       /\ posts[q].exists /\ posts[q].is_public
       /\ posts[q].title = posts[p].title
       /\ posts[q].category # posts[p].category
       /\ ~ILike(posts[p].description,
                 <<"%">> \o explore.search.value \o <<"%">>)

\* t occurs in s as a substring, letter case ignored
Contains(s, t) ==
  \E i \in 0..(Len(s) - Len(t)) :
    \A k \in 1..Len(t) : Lower(s[i + k]) = Lower(t[k])

\* C14: with a search provided, GetExplore returns a public post of the right
\* category if and only if the search text occurs, case-insensitively, as a
\* substring of its title or of its description.
C14_ExploreSearchSubstring ==
  (explore.asked /\ Provided(explore.search)) =>
    /\ \A p \in Range(explore.page) :
         \/ Contains(posts[p].title, explore.search.value)
         \/ Contains(posts[p].description, explore.search.value)
    /\ (explore.offset = 0 /\ explore.limit >= MaxPosts) =>
         \A p \in PostIds :
           ( /\ posts[p].exists /\ posts[p].is_public
             /\ Provided(explore.category)
                => posts[p].category = explore.category.value
             /\ \/ Contains(posts[p].title, explore.search.value)
                \/ Contains(posts[p].description, explore.search.value) )
           => p \in Range(explore.page)

\* C15: GetExplore returns its posts by created_at descending, whatever their
\* scores: a post never comes after one that was created earlier.
C15_ExploreOrdering ==
  explore.asked =>
    \A i, j \in DOMAIN explore.page :
      i < j => posts[explore.page[i]].created_at
                 >= posts[explore.page[j]].created_at

\* the later-created post comes first although its score is the lower one
C15_Witness ==
  /\ explore.asked
  /\ Len(explore.page) = 2
  /\ posts[explore.page[1]].created_at > posts[explore.page[2]].created_at
  /\ posts[explore.page[1]].engagement_score
       < posts[explore.page[2]].engagement_score

\* the number of values GetExplore was given to bind
ProvidedCount ==
  (IF Provided(explore.category) THEN 1 ELSE 0)
  + (IF Provided(explore.search) THEN 1 ELSE 0) + 2

\* the text of the explore query answered has a fragment for predicate pred
HasFragment(pred) == \E i \in DOMAIN explore.text : explore.text[i].pred = pred

\* C16: the text GetExplore generates holds only predicates and $n
\* placeholders, with a predicate for exactly the filters provided; the
\* params array holds exactly the provided values; and the $n of each
\* predicate is the position of the value meant for it: the category, the
\* search text between two % signs, the limit, the offset.
C16_ExploreBinding ==
  explore.status # 0 =>
    /\ Len(explore.params) = ProvidedCount
    /\ HasFragment("category") = Provided(explore.category)
    /\ HasFragment("search") = Provided(explore.search)
    /\ HasFragment("limit") /\ HasFragment("offset")
    /\ \A i \in DOMAIN explore.text :
         LET t == explore.text[i] IN
         /\ DOMAIN t = {"pred", "ph"}
         /\ t.ph \in DOMAIN explore.params
         /\ t.pred = "category" =>
              /\ explore.params[t.ph].type = "text"
              /\ explore.params[t.ph].value = explore.category.value
         /\ t.pred = "search" =>
              /\ explore.params[t.ph].type = "text"
              /\ explore.params[t.ph].value
                   = <<"%">> \o explore.search.value \o <<"%">>
         /\ t.pred = "limit" =>
              /\ explore.params[t.ph].type = "int"
              /\ explore.params[t.ph].value = explore.limit
         /\ t.pred = "offset" =>
              /\ explore.params[t.ph].type = "int"
              /\ explore.params[t.ph].value = explore.offset

\* category and search both provided: four values bound, the query answered
C16_Witness ==
  /\ explore.asked
  /\ Provided(explore.category) /\ Provided(explore.search)
  /\ Len(explore.params) = 4
  /\ explore.page # <<>>

\* C17: no private post is in a GetTrending or GetExplore result: a post its
\* owner has set private is in neither, and a public post, set public again
\* or never hidden, is in every GetExplore result that has room for all posts.
C17_FeedVisibility ==
  /\ feed.asked =>
       \A p \in Range(feed.page) : posts[p].is_public /\ listing[p] # "hidden"
  /\ explore.asked =>
       \A p \in Range(explore.page) : posts[p].is_public /\ listing[p] # "hidden"
  /\ (explore.asked /\ explore.offset = 0 /\ explore.limit >= MaxPosts) =>
       \A p \in PostIds :
         (posts[p].exists /\ posts[p].is_public) => p \in Range(explore.page)

\* a post set private and then public again is returned, and a post that was
\* public and has been set private is not
C17_Witness ==
  /\ explore.asked
  /\ \E p, q \in PostIds :
       /\ listing[p] = "shown" /\ p \in Range(explore.page)
       /\ listing[q] = "hidden" /\ q \notin Range(explore.page)
       /\ posts[q].created_at > posts[p].created_at

\* C18: of a post that has been deleted no likes row and no comments row
\* remains, committed or written by a transaction in progress, and no
\* GetTrending or GetExplore query has it among its candidates.
C18_CascadeDelete ==
  \A p \in PostIds :
    ~posts[p].exists =>
      /\ \A u \in UserIds : likes[<<u, p>>] = 0
      /\ \A c \in CommentIds : comments[c].exists => comments[c].post_id # p
      /\ \A r \in Reqs : InTxn(r) => req[r].row_post # p
      /\ p \notin TrendingCandidates
      /\ p \notin ExploreCandidates(ExploreQuery(AbsentText, AbsentText,
                                                 MaxLimit, 0))

\* a post whose like had been answered liked = TRUE has been deleted
C18_Witness ==
  /\ AtRest
  /\ \E p \in PostIds, u \in UserIds :
       /\ ~posts[p].exists /\ p < nextPostId
       /\ lastLiked[<<u, p>>] = "true"

\* C19: the limit GetTrending and GetExplore bind for the store is never above
\* the safe maximum, and a request with a negative offset is answered 400.
C19_PaginationValidated ==
  /\ feed.status # 0 =>
       /\ feed.limit <= MaxSafeLimit
       /\ feed.offset < 0 => feed.status = 400
  /\ explore.status # 0 =>
       /\ explore.limit <= MaxSafeLimit
       /\ explore.offset < 0 => explore.status = 400

\* C20: the body of a 500 response of ToggleLike, CreateComment or
\* DeleteComment carries the handler's fixed error text and nothing of the
\* store's error.
C20_OpaqueFailures ==
  \A r \in Reqs :
    (Answering(r) /\ req[r].status = 500) => DOMAIN FailureBody(r) = {"error"}

\* ---- authenticateToken and requireVerified, ahead of every handler that
\* writes a post, a like or a comment

\* the Authorization header of a request: none, a token jwt.verify rejects
\* (forged or expired), or the token generateToken signed for user u
NoCredential == [kind |-> "no token", user |-> NULL]

BadCredential == [kind |-> "bad token", user |-> NULL]

Bearer(u) == [kind |-> "token", user |-> u]

Credentials == {NoCredential, BadCredential} \cup {Bearer(u) : u \in UserIds}

\* a user registered and not verified yet
UnverifiedUser == [exists |-> TRUE, is_verified |-> FALSE,
                   verification_token |-> [day |-> 0, ms |-> 0]]

\* the chain without requireVerified
GateStatusUnverified(cred) ==
  IF cred.kind = "no token" THEN 401
  ELSE IF cred.kind = "bad token" THEN 403
  ELSE IF ~users[cred.user].exists THEN 404
  ELSE 0

\* the status the middleware answers with, 0 when both call next():
\* no token 401, jwt.verify err 403, no users row 404, !is_verified 403
GateStatus(cred) ==
  IF cred.kind = "no token" THEN 401
  ELSE IF cred.kind = "bad token" THEN 403
  ELSE IF ~users[cred.user].exists THEN 404
  ELSE IF ~users[cred.user].is_verified THEN 403
  ELSE 0

\* the routes behind the two middlewares
GatedOps == {"like", "comment", "uncomment", "editcomment",
             "createpost", "updatepost", "deletepost"}

\* the middleware answers and the handler is not run
Rejected(r, op, cred) ==
  /\ req[r].pc = "idle"
  /\ GateStatus(cred) # 0
  /\ req' = [req EXCEPT ![r] = [IdleReq EXCEPT !.pc = "respond", !.op = op,
                                               !.user = cred.user,
                                               !.status = GateStatus(cred),
                                               !.cause = cred.kind]]
  /\ UNCHANGED <<posts, nextPostId, likes, comments, nextCommentId, now,
                 feed, explore, lastLiked, soloUser, listing, users, hits>>

\* the db.query of authenticateToken rejects: it is awaited inside the async
\* callback of jwt.verify, outside the reach of the try around jwt.verify, so
\* neither res.status(500) nor next() is called and no response is sent
AuthLookupFail(r, op, cred) ==
  /\ req[r].pc = "idle"
  /\ cred.kind = "token"
  /\ req' = [req EXCEPT ![r] = [IdleReq EXCEPT !.pc = "lost", !.op = op,
                                               !.user = cred.user,
                                               !.cause = "store"]]
  /\ UNCHANGED <<posts, nextPostId, likes, comments, nextCommentId, now,
                 feed, explore, lastLiked, soloUser, listing, users, hits>>

\* ---- UpdateComment: router.put('/:id') of the comments routes

StartEditComment(r, u, c, valid) ==
  /\ req[r].pc = "idle"
  /\ req' = [req EXCEPT ![r] =
               IF valid
               THEN [IdleReq EXCEPT !.pc = "check", !.op = "editcomment",
                                    !.user = u, !.target = c]
               ELSE [IdleReq EXCEPT !.pc = "respond", !.op = "editcomment",
                                    !.user = u, !.target = c, !.status = 400,
                                    !.cause = "validation"]]
  /\ UNCHANGED <<posts, nextPostId, likes, comments, nextCommentId, now,
                 feed, explore, lastLiked, soloUser, listing, users, hits>>

\* SELECT user_id FROM comments WHERE id = $1
EditCheck(r) ==
  /\ req[r].pc = "check" /\ req[r].op = "editcomment"
  /\ req' = [req EXCEPT ![r] =
               IF ~comments[req[r].target].exists
               THEN [@ EXCEPT !.pc = "respond", !.status = 404,
                              !.cause = "notfound"]
               ELSE IF comments[req[r].target].user_id # req[r].user
               THEN [@ EXCEPT !.pc = "respond", !.status = 403,
                              !.cause = "forbidden"]
               ELSE [@ EXCEPT !.pc = "write"]]
  /\ UNCHANGED <<posts, nextPostId, likes, comments, nextCommentId, now,
                 feed, explore, lastLiked, soloUser, listing, users, hits>>

\* UPDATE comments SET content = $1 WHERE id = $2: waits for a transaction
\* deleting the row; no trigger of comments fires for an UPDATE
UpdateCommentRow(r) ==
  /\ req[r].pc = "write" /\ req[r].op = "editcomment"
  /\ ~\E r2 \in Reqs \ {r} : /\ req[r2].op = "uncomment" /\ InTxn(r2)
                             /\ req[r2].target = req[r].target /\ req[r2].del > 0
  /\ req' = [req EXCEPT ![r] = [@ EXCEPT !.pc = "commit"]]
  /\ UNCHANGED <<posts, nextPostId, likes, comments, nextCommentId, now,
                 feed, explore, lastLiked, soloUser, listing, users, hits>>

\* ---- the posts routes with their checks and answers

RECURSIVE TrimLeft(_)
TrimLeft(s) == IF s # <<>> /\ Head(s) = " " THEN TrimLeft(Tail(s)) ELSE s

RECURSIVE TrimRight(_)
TrimRight(s) ==
  IF s # <<>> /\ s[Len(s)] = " " THEN TrimRight(SubSeq(s, 1, Len(s) - 1))
  ELSE s

\* the trim() sanitizer: it also replaces the field of req.body
Trim(s) == TrimRight(TrimLeft(s))

\* isLength({ max: 200 }) of the title, VARCHAR(200) of the column
TitleMax == 200

\* the result of the validators of router.post('/') is not empty:
\* title 1 to 200 characters, description and plan at least 1, after trim()
CreateErrors(title, description, plan) ==
  \/ Len(Trim(title)) < 1
  \/ Len(Trim(title)) > TitleMax
  \/ Len(Trim(description)) < 1
  \/ Len(Trim(plan)) < 1

\* router.post('/'): 400 when validationResult has errors, else the INSERT
CreatePostHandler(r, u, title, description, plan, category, isPublic) ==
  /\ req[r].pc = "idle"
  /\ IF CreateErrors(title, description, plan)
     THEN /\ req' = [req EXCEPT ![r] =
                       [IdleReq EXCEPT !.pc = "respond", !.op = "createpost",
                                       !.user = u, !.status = 400,
                                       !.cause = "validation"]]
          /\ UNCHANGED <<posts, nextPostId>>
     ELSE /\ posts' = [posts EXCEPT ![nextPostId] =
                         InsertedPost(u, Trim(title), Trim(description),
                                      Trim(plan), Trim(category), isPublic)]
          /\ nextPostId' = nextPostId + 1
          /\ req' = [req EXCEPT ![r] =
                       [IdleReq EXCEPT !.pc = "respond", !.op = "createpost",
                                       !.user = u, !.target = nextPostId,
                                       !.status = 201]]
  /\ UNCHANGED <<likes, comments, nextCommentId, now, feed, explore,
                 lastLiked, soloUser, listing, users, hits>>

\* the ownership check left out
NotOwnerNever(u, p) == FALSE

\* postCheck.rows[0].user_id !== userId
NotOwner(u, p) == posts[p].user_id # u

\* a field of the body the validators' trim() has passed over: an absent
\* field stays absent
Trimmed(field) == IF field.given THEN Given(Trim(field.value)) ELSE field

\* the row after UPDATE posts SET <the fields given> WHERE id = $n
UpdatedPost(row, title, description, plan, isPublic) ==
  UpdatedAt([row EXCEPT
    !.title = IF title.given THEN title.value ELSE @,
    !.description = IF description.given THEN description.value ELSE @,
    !.plan = IF plan.given THEN plan.value ELSE @,
    !.is_public = IF isPublic.given THEN isPublic.value ELSE @])

\* router.put('/:id'): the validators run and their result is never read;
\* 404, 403, 400 when no field is given, 500 when the store refuses a title
\* longer than the column, else the UPDATE and 200
UpdatePostHandler(r, u, p, title, description, plan, isPublic) ==
  /\ req[r].pc = "idle"
  /\ ~RowLocked(r, p)
  /\ LET answer(status, why) ==
           [IdleReq EXCEPT !.pc = "respond", !.op = "updatepost", !.user = u,
                           !.target = p, !.status = status, !.cause = why]
         write ==
           /\ posts[p].exists /\ ~NotOwner(u, p)
           /\ title.given \/ description.given \/ plan.given \/ isPublic.given
           /\ title.given => Len(Trim(title.value)) <= TitleMax
     IN
     /\ req' = [req EXCEPT ![r] =
                  IF ~posts[p].exists THEN answer(404, "notfound")
                  ELSE IF NotOwner(u, p) THEN answer(403, "forbidden")
                  ELSE IF ~(title.given \/ description.given \/ plan.given
                            \/ isPublic.given)
                  THEN answer(400, "nofields")
                  ELSE IF title.given /\ Len(Trim(title.value)) > TitleMax
                  THEN answer(500, "toolong")
                  ELSE answer(200, "none")]
     /\ posts' = IF write
                 THEN [posts EXCEPT ![p] =
                         UpdatedPost(@, Trimmed(title), Trimmed(description),
                                     Trimmed(plan), isPublic)]
                 ELSE posts
     /\ listing' = IF write /\ isPublic.given
                   THEN [listing EXCEPT ![p] =
                           ListingAfter(@, posts[p].is_public, isPublic.value)]
                   ELSE listing
  /\ UNCHANGED <<nextPostId, likes, comments, nextCommentId, now, feed,
                 explore, lastLiked, soloUser, users, hits>>

\* router.delete('/:id'): 404, 403, else DELETE FROM posts with its cascade
DeletePostHandler(r, u, p) ==
  /\ req[r].pc = "idle"
  /\ LET answer(status, why) ==
           [IdleReq EXCEPT !.pc = "respond", !.op = "deletepost", !.user = u,
                           !.target = p, !.status = status, !.cause = why]
         write == posts[p].exists /\ ~NotOwner(u, p)
     IN
     /\ write => ~HeldByWriter(p)
     /\ req' = [req EXCEPT ![r] =
                  IF ~posts[p].exists THEN answer(404, "notfound")
                  ELSE IF NotOwner(u, p) THEN answer(403, "forbidden")
                  ELSE answer(200, "none")]
     /\ posts' = IF write THEN [posts EXCEPT ![p] = NoPost] ELSE posts
     /\ likes' = IF write THEN LikesAfterDelete(p) ELSE likes
     /\ comments' = IF write THEN CommentsAfterDelete(p) ELSE comments
     /\ listing' = IF write THEN [listing EXCEPT ![p] = "none"] ELSE listing
  /\ UNCHANGED <<nextPostId, nextCommentId, now, feed, explore, lastLiked,
                 soloUser, users, hits>>

\* ---- one client at a time: every request passes the middleware, then its
\* handler runs statement by statement; days pass between requests

OneReq == {1}

MaxSessionDays == 1

UserRows == {NoUser, UnverifiedUser, VerifiedUser}

InitSession ==
  /\ posts = [p \in PostIds |-> NoPost]
  /\ nextPostId = 1
  /\ likes = [k \in UserIds \X PostIds |-> 0]
  /\ comments = [c \in CommentIds |-> NoComment]
  /\ nextCommentId = 1
  /\ now = 0
  /\ req = [r \in Reqs |-> IdleReq]
  /\ feed = NoFeed
  /\ explore = NoExplore
  /\ lastLiked = [k \in UserIds \X PostIds |-> "none"]
  /\ soloUser = [p \in PostIds |-> NULL]
  /\ listing = [p \in PostIds |-> "none"]
  /\ users \in [UserIds -> UserRows]
  /\ hits = 0

\* the statements of the handler of r, each run when the one before it has
\* been answered by the store
HandlerStep(r) ==
  \/ LikeCheck(r)
  \/ InsertLike(r)
  \/ DeleteLike(r)
  \/ CommentCheck(r)
  \/ InsertComment(r)
  \/ UncommentCheck(r)
  \/ DeleteCommentRow(r)
  \/ EditCheck(r)
  \/ UpdateCommentRow(r)
  \/ TriggerSnapshot(r)
  \/ TriggerUpdate(r)
  \/ Commit(r)
  \/ Respond(r)

NextSession ==
  \/ \E r \in OneReq, op \in GatedOps, cred \in Credentials :
       Rejected(r, op, cred)
  \/ \E r \in OneReq, op \in GatedOps, cred \in Credentials :
       AuthLookupFail(r, op, cred)
  \/ \E r \in OneReq, cred \in Credentials :
       /\ GateStatus(cred) = 0
       /\ nextPostId <= MaxHotPosts
       /\ CreatePostHandler(r, cred.user, <<"a">>, <<"b">>, <<"c">>, <<>>, TRUE)
  \/ \E r \in OneReq, cred \in Credentials, p \in HotPostIds,
        isPublic \in BOOLEAN :
       /\ GateStatus(cred) = 0
       /\ UpdatePostHandler(r, cred.user, p, AbsentText, AbsentText,
                            AbsentText, Given(isPublic))
  \/ \E r \in OneReq, cred \in Credentials, p \in HotPostIds :
       GateStatus(cred) = 0 /\ DeletePostHandler(r, cred.user, p)
  \/ \E r \in OneReq, cred \in Credentials, p \in HotPostIds :
       GateStatus(cred) = 0 /\ StartLike(r, cred.user, p)
  \/ \E r \in OneReq, cred \in Credentials, p \in HotPostIds,
        valid \in BOOLEAN :
       GateStatus(cred) = 0 /\ StartComment(r, cred.user, p, valid)
  \/ \E r \in OneReq, cred \in Credentials, c \in CommentIds :
       GateStatus(cred) = 0 /\ StartUncomment(r, cred.user, c)
  \/ \E r \in OneReq, cred \in Credentials, c \in CommentIds,
        valid \in BOOLEAN :
       GateStatus(cred) = 0 /\ StartEditComment(r, cred.user, c, valid)
  \/ \E r \in OneReq : HandlerStep(r)
  \/ \E r \in OneReq : StoreFail(r)
  \/ now < MaxSessionDays /\ Tick

SpecSession == InitSession /\ [][NextSession]_vars

\* every db.query a handler awaits is settled by the store, and the event
\* loop then runs the statement that follows it
SpecSessionFair ==
  /\ SpecSession
  /\ \A r \in OneReq : WF_vars(HandlerStep(r) \/ StoreFail(r))

\* ---- the properties of the middleware and of the handlers behind it

InteractionOps == {"like", "comment", "uncomment"}

\* C21: every ToggleLike, CreateComment or DeleteComment request is eventually
\* answered, and a request during which a store call failed, the user lookup
\* of the middleware included, is answered with status 500.
C21_ResponseOnStoreFailure ==
  \A r \in OneReq :
    /\ (InFlight(r) /\ req[r].op \in InteractionOps) ~> Answering(r)
    /\ (InFlight(r) /\ req[r].op \in InteractionOps /\ req[r].cause = "store")
         ~> (Answering(r) /\ req[r].status = 500)

Verified(u) == u \in UserIds /\ users[u].exists /\ users[u].is_verified

\* what a request the middleware answered carried as its credential
GateCauses == {"no token", "bad token", "token"}

\* the request in slot r has just been handed to its handler
Admitted(r) ==
  /\ req[r].pc = "idle"
  /\ req'[r].pc \notin {"idle", "lost"}
  /\ req'[r].cause \notin GateCauses

\* the request in slot r has just been answered by the middleware
Refused(r) ==
  /\ req[r].pc = "idle"
  /\ req'[r].pc = "respond"
  /\ req'[r].cause \in GateCauses

\* C22: a posts, likes or comments row is created, changed or removed only by
\* a request that carried the valid token of an existing, verified user; a
\* request without a token is answered 401, one of an unverified user 403, and
\* neither changes the store.
C22_IdentityGate ==
  [][ /\ store' # store =>
           \E r \in Reqs : /\ req[r].pc # "respond"
                           /\ req'[r].pc = "respond"
                           /\ req'[r].cause \notin GateCauses
                           /\ Verified(req'[r].user)
      /\ \A r \in Reqs :
           /\ Admitted(r) => Verified(req'[r].user)
           /\ Refused(r) => store' = store
           /\ (Refused(r) /\ req'[r].cause = "no token") => req'[r].status = 401
           /\ (Refused(r) /\ req'[r].cause = "token"
                 /\ users[req'[r].user].exists) => req'[r].status = 403
    ]_vars

\* a like request of an unverified user is being answered 403 while the
\* store holds a post and a like of a verified user
C22_Witness ==
  \E r \in Reqs, u \in UserIds, p \in PostIds :
    /\ Answering(r) /\ req[r].op = "like" /\ req[r].cause = "token"
    /\ users[req[r].user].exists /\ ~users[req[r].user].is_verified
    /\ req[r].status = 403
    /\ posts[p].exists /\ likes[<<u, p>>] = 1 /\ Verified(u)

\* the columns of a posts row a like or a comment has no business with
Content(row) == [row EXCEPT !.engagement_score = 0]

\* C23: the statement of a like, an unlike, a comment creation or a comment
\* deletion changes no column of a posts row other than engagement_score:
\* title, description, plan, category, visibility, created_at and updated_at
\* keep their values.
C23_InteractionFrame ==
  [][ \A r \in Reqs :
        (req[r].pc = "commit" /\ req[r].op \in InteractionOps
           /\ req'[r].pc = "respond")
        => \A p \in PostIds : Content(posts'[p]) = Content(posts[p]) ]_vars

\* ---- the owners and the other users writing, changing and deleting posts

\* a title longer than the column
LongTitle == [i \in 1..(TitleMax + 1) |-> "a"]

Titles == {<<" ">>, <<"a", " ">>, LongTitle}

Bodies == {<<" ">>, <<"b">>}

\* isPublic is not in the body
AbsentFlag == [given |-> FALSE, value |-> FALSE]

Optional(S) == {AbsentText} \cup {Given(v) : v \in S}

NextCrud ==
  \/ \E r \in OneReq, op \in {"createpost", "updatepost", "deletepost"},
        cred \in Credentials :
       Rejected(r, op, cred)
  \/ \E r \in OneReq, cred \in Credentials, title \in Titles,
        description \in Bodies, plan \in Bodies :
       /\ GateStatus(cred) = 0
       /\ nextPostId <= MaxHotPosts
       /\ CreatePostHandler(r, cred.user, title, description, plan, <<>>, TRUE)
  \/ \E r \in OneReq, cred \in Credentials, p \in PostIds,
        title \in Optional(Titles), description \in Optional(Bodies),
        plan \in Optional(Bodies),
        isPublic \in {AbsentFlag, Given(TRUE), Given(FALSE)} :
       /\ GateStatus(cred) = 0
       /\ UpdatePostHandler(r, cred.user, p, title, description, plan, isPublic)
  \/ \E r \in OneReq, cred \in Credentials, p \in PostIds :
       GateStatus(cred) = 0 /\ DeletePostHandler(r, cred.user, p)
  \/ \E r \in OneReq : Respond(r)

SpecCrud == Init /\ [][NextCrud]_vars

\* C24: a post is changed or removed only by a request of its owner; an update
\* or a delete of an existing post by another user is answered 403 and leaves
\* the store as it was.
C24_OwnerOnly ==
  [][ /\ \A r \in Reqs :
           ( /\ req[r].pc = "idle" /\ req'[r].pc = "respond"
             /\ req'[r].op \in {"updatepost", "deletepost"}
             /\ req'[r].cause \notin GateCauses
             /\ posts[req'[r].target].exists
             /\ posts[req'[r].target].user_id # req'[r].user )
           => (req'[r].status = 403 /\ store' = store)
      /\ \A p \in PostIds :
           (posts[p].exists /\ posts'[p] # posts[p])
           => \E r \in Reqs :
                /\ req[r].pc = "idle" /\ req'[r].pc = "respond"
                /\ req'[r].op \in {"updatepost", "deletepost"}
                /\ req'[r].target = p
                /\ req'[r].user = posts[p].user_id
                /\ req'[r].status = 200
    ]_vars

\* the update of a post by a user who does not own it is being answered 403,
\* after its owner had changed it
C24_Witness ==
  \E r \in Reqs :
    /\ Answering(r) /\ req[r].op = "updatepost" /\ req[r].status = 403
    /\ req[r].cause = "forbidden"
    /\ posts[req[r].target].exists
    /\ posts[req[r].target].user_id # req[r].user
    /\ listing[req[r].target] = "hidden"

\* C30: every stored post has a title of 1 to 200 characters and a description
\* and a plan that are not empty, whether the row was written by a create or
\* changed by an update (a body whose title, description or plan is empty
\* after trimming being answered 400).
C30_PostFieldsValid ==
  \A p \in PostIds :
    posts[p].exists =>
      /\ Len(posts[p].title) >= 1 /\ Len(posts[p].title) <= TitleMax
      /\ Len(posts[p].description) >= 1
      /\ Len(posts[p].plan) >= 1

\* the lookup of the handler in slot r has just been answered by the store
Looked(r) ==
  /\ req[r].pc = "check"
  /\ req'[r] # req[r]
  /\ req'[r].cause # "store"

\* the handler in slot r has just refused its request with this status
RefusedWith(r, status) ==
  /\ req'[r].pc = "respond"
  /\ req'[r].status = status
  /\ store' = store

\* C25: a valid CreateComment for a post that does not exist is answered 404;
\* a DeleteComment or UpdateComment for a comment that does not exist is
\* answered 404, and for a comment of another author 403; in each case no
\* comments row and no score changes.
C25_CommentChecks ==
  [][ \A r \in Reqs :
        /\ (Looked(r) /\ req[r].op = "comment"
              /\ ~posts[req[r].target].exists) => RefusedWith(r, 404)
        /\ (Looked(r) /\ req[r].op \in {"uncomment", "editcomment"}
              /\ ~comments[req[r].target].exists) => RefusedWith(r, 404)
        /\ (Looked(r) /\ req[r].op \in {"uncomment", "editcomment"}
              /\ comments[req[r].target].exists
              /\ comments[req[r].target].user_id # req[r].user)
             => RefusedWith(r, 403)
    ]_vars

\* the deletion of a comment by a user who did not write it is being answered
\* 403; the comment is stored and counted in its post's score
C25_Witness ==
  \E r \in Reqs :
    /\ Answering(r) /\ req[r].op = "uncomment" /\ req[r].status = 403
    /\ req[r].cause = "forbidden"
    /\ comments[req[r].target].exists
    /\ comments[req[r].target].user_id # req[r].user
    /\ posts[comments[req[r].target].post_id].engagement_score = 2

\* ---- the auth routes: register, verify-email, resend-verification

MaxAccountDays == 2

MaxInstant == 1

\* expiresIn: '24h' of the verification token, in days
TokenLifeDays == 1

\* the instants of a day Date.now() can return
Instants == 0..MaxInstant

\* generateVerificationToken(): the signature of { purpose, timestamp } under
\* the server's secret, a function of the timestamp alone
GenerateVerificationToken(instant) == [day |-> now, ms |-> instant]

\* the token strings a client can put into the link
Tokens == [day : 0..MaxAccountDays, ms : Instants]

\* SELECT ... FROM users WHERE verification_token = $1
UsersWithToken(token) ==
  {u \in UserIds : users[u].exists /\ users[u].verification_token = token}

\* the id the users sequence gives to the next row
NextUserId == Cardinality({u \in UserIds : users[u].exists}) + 1

\* router.post('/register'): 400 for a body the validators refuse or a
\* username or email already registered, else the INSERT with a new token
Register(r, acceptable, instant) ==
  /\ req[r].pc = "idle"
  /\ NextUserId \in UserIds
  /\ LET token == GenerateVerificationToken(instant) IN
     IF ~acceptable
     THEN /\ req' = [req EXCEPT ![r] =
                       [IdleReq EXCEPT !.pc = "respond", !.op = "register",
                                       !.status = 400, !.cause = "validation"]]
          /\ users' = users
     ELSE /\ users' = [users EXCEPT ![NextUserId] =
                         [exists |-> TRUE, is_verified |-> FALSE,
                          verification_token |-> token]]
          /\ req' = [req EXCEPT ![r] =
                       [IdleReq EXCEPT !.pc = "respond", !.op = "register",
                                       !.target = NextUserId, !.status = 201,
                                       !.token = token]]
  /\ UNCHANGED <<posts, nextPostId, likes, comments, nextCommentId, now,
                 feed, explore, lastLiked, soloUser, listing, hits>>

\* router.get('/verify-email'): 400 without a token or when no row holds it,
\* else rows[0] of the rows that hold it (in the order the store returns
\* them) is set verified and its token NULL; the token is compared, never
\* verified as a JWT
VerifyEmail(r, given, token) ==
  /\ req[r].pc = "idle"
  /\ IF ~given \/ UsersWithToken(token) = {}
     THEN /\ req' = [req EXCEPT ![r] =
                       [IdleReq EXCEPT !.pc = "respond", !.op = "verify",
                                       !.status = 400, !.cause = "invalid",
                                       !.token = IF given THEN token
                                                 ELSE NullToken]]
          /\ users' = users
     ELSE \E u \in UsersWithToken(token) :
            /\ users' = [users EXCEPT ![u] = VerifiedUser]
            /\ req' = [req EXCEPT ![r] =
                         [IdleReq EXCEPT !.pc = "respond", !.op = "verify",
                                         !.target = u, !.status = 200,
                                         !.token = token]]
  /\ UNCHANGED <<posts, nextPostId, likes, comments, nextCommentId, now,
                 feed, explore, lastLiked, soloUser, listing, hits>>

\* the timestamp of a token made for a user is later than that of the token
\* it replaces: the client asked for it after it got the first
Later(token, old) ==
  \/ token.day > old.day
  \/ token.day = old.day /\ token.ms > old.ms

\* router.post('/resend-verification'): 404 for an unknown email, 400 for a
\* verified user, else a new token replaces the stored one
ResendVerification(r, u, instant) ==
  /\ req[r].pc = "idle"
  /\ LET token == GenerateVerificationToken(instant)
         answer(status, why) ==
           [IdleReq EXCEPT !.pc = "respond", !.op = "resend", !.target = u,
                           !.status = status, !.cause = why]
     IN
     IF ~users[u].exists
     THEN req' = [req EXCEPT ![r] = answer(404, "notfound")] /\ users' = users
     ELSE IF users[u].is_verified
     THEN req' = [req EXCEPT ![r] = answer(400, "verified")] /\ users' = users
     ELSE /\ Later(token, users[u].verification_token)
          /\ req' = [req EXCEPT ![r] =
                       [answer(200, "none") EXCEPT !.token = token]]
          /\ users' = [users EXCEPT ![u].verification_token = token]
  /\ UNCHANGED <<posts, nextPostId, likes, comments, nextCommentId, now,
                 feed, explore, lastLiked, soloUser, listing, hits>>

InitAccount ==
  /\ posts = [p \in PostIds |-> NoPost]
  /\ nextPostId = 1
  /\ likes = [k \in UserIds \X PostIds |-> 0]
  /\ comments = [c \in CommentIds |-> NoComment]
  /\ nextCommentId = 1
  /\ now = 0
  /\ req = [r \in Reqs |-> IdleReq]
  /\ feed = NoFeed
  /\ explore = NoExplore
  /\ lastLiked = [k \in UserIds \X PostIds |-> "none"]
  /\ soloUser = [p \in PostIds |-> NULL]
  /\ listing = [p \in PostIds |-> "none"]
  /\ users = [u \in UserIds |-> NoUser]
  /\ hits = 0

NextAccount ==
  \/ \E r \in OneReq, acceptable \in BOOLEAN, instant \in Instants :
       Register(r, acceptable, instant)
  \/ \E r \in OneReq, given \in BOOLEAN, token \in Tokens :
       VerifyEmail(r, given, token)
  \/ \E r \in OneReq, u \in UserIds, instant \in Instants :
       ResendVerification(r, u, instant)
  \/ \E r \in OneReq : Respond(r)
  \/ now < MaxAccountDays /\ Tick

SpecAccount == InitAccount /\ [][NextAccount]_vars

\* C26: a verification token is accepted for 24 hours: verify-email never
\* answers 200 to a token issued more than 24 hours before.
C26_TokenExpiry ==
  \A r \in Reqs :
    (Answering(r) /\ req[r].op = "verify" /\ req[r].status = 200)
    => now - req[r].token.day <= TokenLifeDays

\* the auth handler in slot r has just answered
Answered(r, op) ==
  /\ req[r].pc = "idle"
  /\ req'[r].pc = "respond"
  /\ req'[r].op = op

\* C28: verify-email accepts a token only while a user stores it: a token no
\* user stores is answered 400 and changes no user; once a token has verified
\* a user no user stores it any more, so that presenting it again is answered
\* 400; resend-verification for a verified user is answered 400 and changes
\* nothing; is_verified never goes from true to false.
C28_TokenLifecycle ==
  [][ /\ \A r \in Reqs :
           /\ (Answered(r, "verify") /\ UsersWithToken(req'[r].token) = {})
                => (req'[r].status = 400 /\ users' = users)
           /\ (Answered(r, "verify") /\ req'[r].status = 200)
                => \A u \in UserIds :
                     users'[u].verification_token # req'[r].token
           /\ (Answered(r, "resend") /\ users[req'[r].target].is_verified)
                => (req'[r].status = 400 /\ users' = users)
      /\ \A u \in UserIds : users[u].is_verified => users'[u].is_verified
    ]_vars

\* C29: a token verifies only the user it was issued to: no two users who are
\* not verified hold the same token, tokens generated at the same timestamp
\* included.
C29_TokenBinding ==
  \A u, v \in UserIds :
    ( /\ u # v
      /\ users[u].exists /\ ~users[u].is_verified
      /\ users[v].exists /\ ~users[v].is_verified )
    => users[u].verification_token # users[v].verification_token

\* ---- the rate limiter in front of every route: app.use(limiter)

\* max: 100 requests of an IP per window of 15 minutes
RateLimitMax == 100

\* what router.get('/trending') can answer from the posts table as it is
TrendingAnswers(limit, offset) ==
  IF PageRejected(limit, offset)
  THEN {[NoFeed EXCEPT !.status = 500, !.limit = limit, !.offset = offset]}
  ELSE {[asked |-> TRUE, status |-> 200, limit |-> limit, offset |-> offset,
         page |-> Page(s, limit, offset)] : s \in TrendingOrders}

\* a GetTrending request of the client: the limiter counts it in the memory
\* of the process and answers 429 itself once the count is above max, else
\* the handler answers
LimitedGetTrending(limit, offset) ==
  /\ feed = NoFeed /\ explore = NoExplore
  /\ hits <= RateLimitMax
  /\ hits' = hits + 1
  /\ IF hits + 1 > RateLimitMax
     THEN feed' = [NoFeed EXCEPT !.status = 429, !.limit = limit,
                                 !.offset = offset]
     ELSE feed' \in TrendingAnswers(limit, offset)
  /\ UNCHANGED <<posts, nextPostId, likes, comments, nextCommentId, now, req,
                 explore, lastLiked, soloUser, listing, users>>

\* the answer has been sent
Delivered ==
  /\ feed # NoFeed
  /\ feed' = NoFeed
  /\ UNCHANGED <<posts, nextPostId, likes, comments, nextCommentId, now, req,
                 explore, lastLiked, soloUser, listing, users, hits>>

\* windowMs has passed: the limiter forgets the count
WindowReset ==
  /\ hits > 0
  /\ hits' = 0
  /\ UNCHANGED <<posts, nextPostId, likes, comments, nextCommentId, now, req,
                 feed, explore, lastLiked, soloUser, listing, users>>

NextLimiter ==
  \/ \E offset \in -1..0 : LimitedGetTrending(MaxLimit, offset)
  \/ Delivered
  \/ WindowReset

SpecLimiter == InitFeed /\ [][NextLimiter]_vars

\* C27: the process keeps nothing between requests: the answer to a
\* GetTrending request is one the handler gives from the request and the
\* store as they are, whatever requests came before.
C27_Stateless ==
  [][ (feed = NoFeed /\ feed' # NoFeed)
      => feed' \in TrendingAnswers(feed'.limit, feed'.offset) ]_vars

====
